---- MODULE Spec2Model ----
(***************************************************************************)
(* eye: custom domain relay for Cloudflare Images (src/src/index.ts, the   *)
(* current revision, lines 140-430).  The model covers the cache/lookup    *)
(* core: the expiry policy (isExpired), the paginated catalog fetcher      *)
(* (fetchImages / fetchAll), the lookup resolver (getImage, findImage,     *)
(* stripExt), the image relay and the routes that drive them.             *)
(*                                                                         *)
(* Strings are sequences of UTF-16 code units (integers), so that          *)
(* startsWith and the character class of stripExt's regular expression     *)
(* are computed, not assumed.  Times are milliseconds since the epoch;     *)
(* they stay below 2^31 (the first weeks of 1970).                         *)
(***************************************************************************)
EXTENDS Integers, Sequences, FiniteSets, TLC

VARIABLES
    kv,        \* the KV namespace `eye`: KV_IMAGES, KV_LAST_CACHED, credentials;
               \* Undefined when no namespace is bound
    now,       \* the wall clock, new Date().getTime()
    source,    \* the Cloudflare Images API: the pages it serves
    req,       \* the requests in flight, one record each
    log,       \* what console.log has written
    ticks,     \* clock advances so far
    call,      \* pure checks: the arguments drawn
    ret        \* pure checks: the value returned

vars == <<kv, now, source, req, log, ticks, call, ret>>

(***************************************************************************)
(* Bounds of the model.                                                    *)
(***************************************************************************)
MaxCatalog == 2        \* longest catalog drawn for the pure lookup checks
MaxPages == 3          \* most pages a drawn remote source holds
NumReq == 2            \* concurrent requests in the system specification
MaxTicks == 1          \* clock advances in the system specification
MaxDays == 2           \* span, in days, of the times drawn for the expiry checks
ShortPage == 37        \* size of a short page drawn for the pagination checks
MaxNeedle == 4         \* length of the strings drawn for the stripExt checks

(***************************************************************************)
(* Strings.                                                                *)
(***************************************************************************)
Min(S) == CHOOSE x \in S : \A y \in S : x <= y

\* String.prototype.startsWith
StartsWith(s, prefix) ==
    /\ Len(prefix) <= Len(s)
    /\ SubSeq(s, 1, Len(prefix)) = prefix

\* String.prototype.endsWith
EndsWith(s, suffix) ==
    /\ Len(suffix) <= Len(s)
    /\ SubSeq(s, Len(s) - Len(suffix) + 1, Len(s)) = suffix

\* String.prototype.includes
Includes(s, sub) ==
    \E i \in 0..(Len(s) - Len(sub)) : SubSeq(s, i + 1, i + Len(sub)) = sub

\* "not found"
S_notFound ==
    <<110, 111, 116, 32, 102, 111, 117, 110, 100>>
S_images == <<105, 109, 97, 103, 101, 115>>        \* "images"
S_find == <<102, 105, 110, 100>>                  \* "find"

\* the character '.' of the regular expression /\.[A-z]+$/g
DotChar == 46
\* the class [A-z]: every code unit from 'A' (65) to 'z' (122), which takes in
\* the letters and also [ \ ] ^ _ ` (91..96)
ClassLo == 65
ClassHi == 122

InClassAz(c) == ClassLo <= c /\ c <= ClassHi

\* the positions at which /\.[A-z]+$/ matches: a dot followed by one or more
\* characters of the class, up to the end of the string
ExtMatches(s) ==
    { i \in 1..Len(s) :
        /\ s[i] = DotChar
        /\ i < Len(s)
        /\ \A j \in (i + 1)..Len(s) : InClassAz(s[j]) }

\* stripExt: filename.replace(/\.[A-z]+$/g, '') removes the leftmost match
stripExt(filename) ==
    IF ExtMatches(filename) = {}
    THEN filename
    ELSE SubSeq(filename, 1, Min(ExtMatches(filename)) - 1)

(***************************************************************************)
(* Lookup.                                                                 *)
(***************************************************************************)
\* the value `undefined`
Undefined == [tag |-> "undefined"]

\* the predicate of findImage's haystack.find
ImageMatches(img, needle) ==
    StartsWith(img.filename, needle) \/ StartsWith(img.id, needle)

\* a two-pass lookup: any filename match is preferred to an id match
findImageFilenameFirst(needle, haystack) ==
    LET byName == { i \in 1..Len(haystack) : StartsWith(haystack[i].filename, needle) }
        byId == { i \in 1..Len(haystack) : StartsWith(haystack[i].id, needle) }
    IN  IF byName # {} THEN haystack[Min(byName)]
        ELSE IF byId # {} THEN haystack[Min(byId)]
        ELSE Undefined

\* Array.prototype.find: the first element, in index order, that satisfies
\* the predicate, or undefined
findImage(needle, haystack) ==
    LET hits == { i \in 1..Len(haystack) : ImageMatches(haystack[i], needle) }
    IN  IF hits = {} THEN Undefined ELSE haystack[Min(hits)]

\* the tail of getImage once it holds the catalog: findImage on the stripped
\* needle, then `throw new Error("Image not found: <needle>")` or the image
Found(image) == [ok |-> TRUE, image |-> image]
Thrown(kind, detail) == [ok |-> FALSE, error |-> kind, detail |-> detail]

\* getImage without its `if (!image) throw`
resolveInNoThrow(needle, images) == Found(findImage(stripExt(needle), images))

resolveIn(needle, images) ==
    LET image == findImage(stripExt(needle), images)
    IN  IF image = Undefined
        THEN Thrown("Image not found", needle)
        ELSE Found(image)

(***************************************************************************)
(* Catalog entries drawn for the checks.  An Image carries id, filename    *)
(* and variants; uploaded and requireSignedURLs are never read by the      *)
(* worker and are left out.                                                *)
(***************************************************************************)
S_cat == <<99, 97, 116>>                          \* "cat"
S_cat2 == <<99, 97, 116, 50>>                     \* "cat2"
S_ab == <<97, 98>>                                \* "ab"
S_dog == <<100, 111, 103>>                        \* "dog"
S_png == <<46, 112, 110, 103>>                    \* ".png"
S_jpg == <<46, 106, 112, 103>>                    \* ".jpg"
S_public == <<112, 117, 98, 108, 105, 99>>        \* "public"
S_base == <<120, 47>>                             \* "x/"
S_slash == <<47>>                                 \* "/"

Filenames ==
    { S_cat, S_cat \o S_png, S_cat \o S_jpg, S_cat2 \o S_png,
      S_ab \o S_png, S_dog \o S_png }

\* ids: "ab1", "ab12", "c4", "d0"
Ids == { <<97, 98, 49>>, <<97, 98, 49, 50>>, <<99, 52>>, <<100, 48>> }

Exts == { S_png, S_jpg }

VariantUrl(id, name) == S_base \o id \o S_slash \o name

Image(id, filename) ==
    [id |-> id, filename |-> filename, variants |-> <<VariantUrl(id, S_public)>>]

Entries == { Image(i, f) : i \in Ids, f \in Filenames }

UniqueIds(images) ==
    \A i, j \in 1..Len(images) : i # j => images[i].id # images[j].id

\* every catalog of at most MaxCatalog entries with unique ids, in every order
Catalogs ==
    UNION { { c \in [1..n -> Entries] : UniqueIds(c) } : n \in 0..MaxCatalog }

\* needles: exact filenames, exact ids, filenames with an extension appended,
\* and needles that match nothing or everything
Needles ==
    Filenames \cup Ids \cup { f \o x : f \in Filenames, x \in Exts }
        \cup { <<122, 122>>, S_png, S_ab, <<99>> }

NoCall == [fn |-> "none"]
NoRet == [tag |-> "none"]
Returned(value) == [tag |-> "returned", value |-> value]

(***************************************************************************)
(* Time.  toISOString writes a time as calendar fields; new Date(string)   *)
(* reads them back (days-from-civil arithmetic, proleptic Gregorian, UTC). *)
(***************************************************************************)
MsPerDay == 1000 * 60 * 60 * 24

\* Date.prototype.toISOString: YYYY-MM-DDTHH:mm:ss.sssZ as its fields
toISOString(ms) ==
    LET days == ms \div MsPerDay
        rest == ms % MsPerDay
        z == days + 719468
        era == z \div 146097
        doe == z - era * 146097
        yoe == (doe - doe \div 1460 + doe \div 36524 - doe \div 146096) \div 365
        doy == doe - (365 * yoe + yoe \div 4 - yoe \div 100)
        mp == (5 * doy + 2) \div 153
        d == doy - (153 * mp + 2) \div 5 + 1
        m == IF mp < 10 THEN mp + 3 ELSE mp - 9
        y == yoe + era * 400 + (IF m <= 2 THEN 1 ELSE 0)
    IN  [year |-> y, month |-> m, day |-> d,
         hour |-> (rest \div 3600000),
         minute |-> ((rest \div 60000) % 60),
         second |-> ((rest \div 1000) % 60),
         milli |-> (rest % 1000)]

\* new Date(isoString).getTime()
DateParse(iso) ==
    LET y == IF iso.month <= 2 THEN iso.year - 1 ELSE iso.year
        era == y \div 400
        yoe == y - era * 400
        mp == IF iso.month > 2 THEN iso.month - 3 ELSE iso.month + 9
        doy == (153 * mp + 2) \div 5 + iso.day - 1
        doe == yoe * 365 + yoe \div 4 - yoe \div 100 + doy
        days == era * 146097 + doe - 719468
    IN  days * MsPerDay + iso.hour * 3600000 + iso.minute * 60000
            + iso.second * 1000 + iso.milli

(***************************************************************************)
(* The KV namespace and the expiry policy.                                 *)
(***************************************************************************)
\* what KVNamespace.get answers for a key that is not stored
Null == [tag |-> "null"]

\* a string where null or undefined may stand instead
Str(text) == [tag |-> "string", text |-> text]

\* the three candidate lifetimes of isExpired; dev = false and longTerm = true
\* select the 24 hour one
TTL30Seconds == 1000 * 30
TTL1Hour == 1000 * 60 * 60
TTL24Hours == 1000 * 60 * 60 * 24
dev == FALSE
longTerm == TRUE
TTL == IF dev THEN TTL30Seconds ELSE IF longTerm THEN TTL24Hours ELSE TTL1Hour

\* !lastCached || new Date(lastCached).getTime() < new Date().getTime() - ttl
ExpiredAfter(lastCached, clock, ttl) ==
    \/ lastCached = Null
    \/ DateParse(lastCached) < clock - ttl

\* an expiry check that asks for a refresh on every call
isExpiredAlways(lastCached, clock) == TRUE

\* isExpired with longTerm = false: the one hour lifetime
isExpired1Hour(lastCached, clock) == ExpiredAfter(lastCached, clock, TTL1Hour)

\* the value isExpired resolves with, given what get('KV_LAST_CACHED') read
isExpired(lastCached, clock) == ExpiredAfter(lastCached, clock, TTL)

\* JSON.stringify(images) as stored, and JSON.parse of what get() answers:
\* JSON.parse(null) is null
JSONstringify(value) == [tag |-> "json", array |-> value]
JSONparse(text) == IF text = Null THEN Null ELSE [tag |-> "array", items |-> text.array]

\* an array held by a variable that may also hold null
Arr(items) == [tag |-> "array", items |-> items]

\* a put that appends to the array already stored
PutMerged(old, new) ==
    IF old = Null \/ new = Null \/ ~("array" \in DOMAIN old) \/ ~("array" \in DOMAIN new)
    THEN new
    ELSE [tag |-> "json", array |-> old.array \o new.array]

\* KVNamespace.put replaces the whole value stored under the key
PutValue(old, new) == new

(***************************************************************************)
(* Promises: settled once; a later resolve or reject changes nothing.      *)
(***************************************************************************)
Pending == [state |-> "pending"]
Fulfilled(value) == [state |-> "fulfilled", value |-> value]
Rejected(reason) == [state |-> "rejected", reason |-> reason]

\* resolve(value) of fetchImages' promise
SettleResolve(promise, value) ==
    IF promise.state = "pending" THEN Fulfilled(value) ELSE promise

\* a reject that overrides a promise already resolved
SettleRejectAlways(promise, reason) == Rejected(reason)

\* reject(reason) of fetchImages' promise, reached through .catch(reject)
SettleReject(promise, reason) ==
    IF promise.state = "pending" THEN Rejected(reason) ELSE promise

(***************************************************************************)
(* The remote catalog source.                                              *)
(***************************************************************************)
\* Batch size for fetching images from Cloudflare API
BATCH_SIZE == 100

\* json.result.images of GET CF_IMAGES_API(accountId, page): the page asked
\* for, empty past the last one
PageOf(src, page) == IF page \in 1..Len(src) THEN src[page] ELSE <<>>

\* what fetch() brings back for a page request: nothing when the source is
\* unreachable (fetch rejects), otherwise a status and a body
Unreachable == [reachable |-> FALSE]
Response(status, body) == [reachable |-> TRUE, status |-> status, body |-> body]

\* bodies: the API's JSON envelope, with `result` set on success and null on
\* failure, or a body that is not JSON (a gateway's error page)
Envelope(result) == [tag |-> "json", result |-> result]
NotJson(text) == [tag |-> "text", text |-> text]

\* '<h1>not found</h1>'
T_notFoundPage ==
    <<60, 104, 49, 62, 110, 111, 116, 32, 102, 111, 117, 110, 100, 60,
      47, 104, 49, 62>>
\* '<html>'
T_errorPage ==
    <<60, 104, 116, 109, 108, 62>>
\* '<html><body>404 not found'
T_longNotFoundPage ==
    <<60, 104, 116, 109, 108, 62, 60, 98, 111, 100, 121, 62, 52, 48,
      52, 32, 110, 111, 116, 32, 102, 111, 117, 110, 100>>

\* the bodies that are not JSON a failing source answers with: an error
\* page that says 'not found', the plain text 'not found', an error page
\* that does not say it, an empty body, and a page of more than 20
\* characters that says 'not found' after the tenth
ErrorPages == {T_notFoundPage, S_notFound, T_errorPage, <<>>, T_longNotFoundPage}

\* a reply whose body is the envelope of a page, under any status
PageResponse(status, images) == Response(status, Envelope([images |-> images]))

\* Response.ok
ResponseOk(response) == 200 <= response.status /\ response.status <= 299

\* the credentials POST /setup stored, and what get() answers before setup
S_account == <<97, 99, 99, 116>>                  \* "acct"
S_apiKey == <<107, 101, 121>>                     \* "key"

\* the API accepts the account id and the bearer token
CredentialsAccepted(accountId, apiKey) ==
    accountId = [tag |-> "string", text |-> S_account]
        /\ apiKey = [tag |-> "string", text |-> S_apiKey]

\* the replies to a page request that do not carry the page: the source is
\* unreachable, it answers the failure envelope (`result` null), or a gateway
\* answers an error page; without accepted credentials it answers 401
FailedResponses(accountId, apiKey) ==
    IF CredentialsAccepted(accountId, apiKey)
    THEN {Unreachable, Response(500, Envelope(Null))}
             \cup { Response(IF Includes(text, S_notFound) THEN 404 ELSE 502,
                             NotJson(text)) : text \in ErrorPages }
    ELSE {Unreachable, Response(401, Envelope(Null))}

\* the statuses under which the API, when it accepts the credentials,
\* answers the envelope of the page asked for: a success status and a
\* non-success one
PageStatuses == {200, 500}

\* the page request found the source unreachable or got a non-success status
NonSuccess(response) == ~response.reachable \/ ~ResponseOk(response)

\* fetch(...).then((res) => res.json()).then((json) => json.result.images):
\* the status is never looked at; fetch rejects when unreachable, res.json()
\* rejects on a body that is not JSON with a SyntaxError that quotes the
\* body, and reading `images` of a null `result` throws
PageImages(response) ==
    IF ~response.reachable
    THEN [ok |-> FALSE, error |-> "fetch failed", detail |-> <<>>]
    ELSE IF response.body.tag # "json"
    THEN [ok |-> FALSE, error |-> "SyntaxError", detail |-> response.body.text]
    ELSE IF response.body.result = Null
    THEN [ok |-> FALSE, error |-> "TypeError", detail |-> S_images]
    ELSE [ok |-> TRUE, images |-> response.body.result.images]

\* a fetcher that goes on until a page comes back empty
NeedsNextPageUntilEmpty(images) == Len(images) > 0

\* fetchAll's decision after a page: another page is fetched exactly when
\* this one held BATCH_SIZE images
NeedsNextPage(images) == Len(images) = BATCH_SIZE

(***************************************************************************)
(* Responses.                                                              *)
(***************************************************************************)
\* ctx.text(message, status) and ctx.json(value)
Message(text, detail) == [text |-> text, detail |-> detail]
Text(status, text, detail) == [status |-> status, body |-> Message(text, detail)]
Json(value) == [status |-> 200, body |-> [json |-> value]]

\* the texts of the messages the worker's errors carry
\* "Image not found: "
M_imageNotFound ==
    <<73, 109, 97, 103, 101, 32, 110, 111, 116, 32, 102, 111, 117,
      110, 100, 58, 32>>
\* "Variant not found: "
M_variantNotFound ==
    <<86, 97, 114, 105, 97, 110, 116, 32, 110, 111, 116, 32, 102, 111,
      117, 110, 100, 58, 32>>
\* "KV namespace not found"
M_kvNotFound ==
    <<75, 86, 32, 110, 97, 109, 101, 115, 112, 97, 99, 101, 32, 110,
      111, 116, 32, 102, 111, 117, 110, 100>>
\* "fetch failed"
M_fetchFailed ==
    <<102, 101, 116, 99, 104, 32, 102, 97, 105, 108, 101, 100>>
\* "Unexpected token '"
M_unexpectedToken ==
    <<85, 110, 101, 120, 112, 101, 99, 116, 101, 100, 32, 116, 111,
      107, 101, 110, 32, 39>>
\* '\', '
M_tokenSep ==
    <<39, 44, 32>>
\* ' is not valid JSON'
M_notValidJson ==
    <<32, 105, 115, 32, 110, 111, 116, 32, 118, 97, 108, 105, 100,
      32, 74, 83, 79, 78>>
\* the double quote
QuoteMark == 34
\* 'Unexpected end of JSON input'
M_unexpectedEnd ==
    <<85, 110, 101, 120, 112, 101, 99, 116, 101, 100, 32, 101, 110,
      100, 32, 111, 102, 32, 74, 83, 79, 78, 32, 105, 110, 112, 117,
      116>>
\* "Cannot read properties of null (reading '"
M_typeError ==
    <<67, 97, 110, 110, 111, 116, 32, 114, 101, 97, 100, 32, 112, 114,
      111, 112, 101, 114, 116, 105, 101, 115, 32, 111, 102, 32, 110,
      117, 108, 108, 32, 40, 114, 101, 97, 100, 105, 110, 103, 32, 39>>
\* "')"
M_typeErrorEnd ==
    <<39, 41>>
\* "Invalid credentials"
M_invalidCredentials ==
    <<73, 110, 118, 97, 108, 105, 100, 32, 99, 114, 101, 100, 101,
      110, 116, 105, 97, 108, 115>>
\* "KV PUT failed"
M_putFailed ==
    <<75, 86, 32, 80, 85, 84, 32, 102, 97, 105, 108, 101, 100>>

\* "Unexpected non-whitespace character after JSON at position "
M_afterJson ==
    <<85, 110, 101, 120, 112, 101, 99, 116, 101, 100, 32, 110, 111,
      110, 45, 119, 104, 105, 116, 101, 115, 112, 97, 99, 101, 32, 99,
      104, 97, 114, 97, 99, 116, 101, 114, 32, 97, 102, 116, 101, 114,
      32, 74, 83, 79, 78, 32, 97, 116, 32, 112, 111, 115, 105, 116,
      105, 111, 110, 32>>

\* the decimal digits of n
RECURSIVE Decimal(_)
Decimal(n) == IF n < 10 THEN <<48 + n>> ELSE Decimal(n \div 10) \o <<48 + (n % 10)>>

\* "Unexpected number in JSON at position "
M_unexpectedNumber ==
    <<85, 110, 101, 120, 112, 101, 99, 116, 101, 100, 32, 110, 117,
      109, 98, 101, 114, 32, 105, 110, 32, 74, 83, 79, 78, 32, 97,
      116, 32, 112, 111, 115, 105, 116, 105, 111, 110, 32>>
\* "Unexpected string in JSON at position "
M_unexpectedString ==
    <<85, 110, 101, 120, 112, 101, 99, 116, 101, 100, 32, 115, 116,
      114, 105, 110, 103, 32, 105, 110, 32, 74, 83, 79, 78, 32, 97,
      116, 32, 112, 111, 115, 105, 116, 105, 111, 110, 32>>
\* '...'
M_dots ==
    <<46, 46, 46>>
\* JSON white space
JsonSpace == {9, 10, 13, 32}

\* null, true, false: the literal a JSON text that starts with c must spell;
\* nothing for a character no JSON value starts with, which leaves out the
\* characters an object, an array, a string or a number starts with
JsonLiteral(c) ==
    CASE c = 110 -> <<110, 117, 108, 108>>
      [] c = 116 -> <<116, 114, 117, 101>>
      [] c = 102 -> <<102, 97, 108, 115, 101>>
      [] c \notin {34, 45, 91, 123} \cup (48..57) -> <<>>

\* where the JSON parser stops on a text that is no JSON value and starts,
\* after white space, with a literal's first letter or with a character no
\* JSON value starts with: at the end of the text, at the character that
\* breaks the literal, or at the first character after a complete literal.
\* Texts that open an object, an array, a string or a number are not covered
ParseStop(text) ==
    LET inked == { i \in 1..Len(text) : text[i] \notin JsonSpace }
    IN  IF inked = {} THEN [kind |-> "end", at |-> Len(text) + 1]
        ELSE LET first == Min(inked)
                 word == JsonLiteral(text[first])
                 broken == { k \in 1..Len(word) :
                               \/ first + k - 1 > Len(text)
                               \/ text[first + k - 1] # word[k] }
                 after == { i \in inked : i >= first + Len(word) }
             IN  IF word = <<>> THEN [kind |-> "token", at |-> first]
                 ELSE IF broken # {}
                 THEN IF first + Min(broken) - 1 > Len(text)
                      THEN [kind |-> "end", at |-> Len(text) + 1]
                      ELSE [kind |-> "token", at |-> first + Min(broken) - 1]
                 ELSE IF after # {}
                 THEN [kind |-> "after", at |-> Min(after)]
                 ELSE [kind |-> "end", at |-> Len(text) + 1]

\* the characters quoted on either side of the place the parser stopped at;
\* a text of more than twice as many is quoted in part only
ContextChars == 10

\* the texts whose message is the quoted text alone
SpecialTexts ==
    { <<117, 110, 100, 101, 102, 105, 110, 101, 100>>,      \* "undefined"
      <<78, 97, 78>>,                                          \* "NaN"
      <<73, 110, 102, 105, 110, 105, 116, 121>> }              \* "Infinity"

\* the quotation of the text in the message: the whole text when it has at
\* most 2 * ContextChars characters, otherwise ContextChars characters before and
\* after the character the parser stopped at (at position pos, from 0),
\* with '...' on each side that is cut
QuotedContext(text, pos) ==
    IF Len(text) < ContextChars * 2 + 1
    THEN <<QuoteMark>> \o text \o <<QuoteMark>>
    ELSE IF pos < ContextChars
    THEN <<QuoteMark>> \o SubSeq(text, 1, pos + ContextChars) \o <<QuoteMark>> \o M_dots
    ELSE IF pos < Len(text) - ContextChars
    THEN M_dots \o <<QuoteMark>>
             \o SubSeq(text, pos - ContextChars + 1, pos + ContextChars)
             \o <<QuoteMark>> \o M_dots
    ELSE M_dots \o <<QuoteMark>> \o SubSeq(text, pos - ContextChars + 1, Len(text))
             \o <<QuoteMark>>

\* the message of the SyntaxError JSON.parse and res.json() throw (V8): the
\* text ended; text follows a complete value; the parser stopped at a digit,
\* a minus sign or a double quote; or it names the character it stopped at
\* and quotes the text around it.  Positions count from 0
SyntaxErrorText(text) ==
    LET stop == ParseStop(text)
        pos == stop.at - 1
    IN  CASE stop.kind = "end" -> M_unexpectedEnd
          [] stop.kind = "after" -> M_afterJson \o Decimal(pos)
          [] stop.kind = "token" /\ text[stop.at] \in (48..57) \cup {45} ->
                M_unexpectedNumber \o Decimal(pos)
          [] stop.kind = "token" /\ text[stop.at] = 34 ->
                M_unexpectedString \o Decimal(pos)
          [] OTHER ->
                IF text \in SpecialTexts
                THEN <<QuoteMark>> \o text \o <<QuoteMark>> \o M_notValidJson
                ELSE M_unexpectedToken \o <<text[stop.at]>> \o M_tokenSep
                         \o QuotedContext(text, pos) \o M_notValidJson

\* 'Headers.append: "'
M_headersAppend ==
    <<72, 101, 97, 100, 101, 114, 115, 46, 97, 112, 112, 101, 110,
      100, 58, 32, 34>>
\* '" is an invalid header value.'
M_invalidHeader ==
    <<34, 32, 105, 115, 32, 97, 110, 32, 105, 110, 118, 97, 108, 105,
      100, 32, 104, 101, 97, 100, 101, 114, 32, 118, 97, 108, 117,
      101, 46>>
\* 'Cannot convert argument to a ByteString because the character at index '
M_byteStringIndex ==
    <<67, 97, 110, 110, 111, 116, 32, 99, 111, 110, 118, 101, 114,
      116, 32, 97, 114, 103, 117, 109, 101, 110, 116, 32, 116, 111,
      32, 97, 32, 66, 121, 116, 101, 83, 116, 114, 105, 110, 103, 32,
      98, 101, 99, 97, 117, 115, 101, 32, 116, 104, 101, 32, 99, 104,
      97, 114, 97, 99, 116, 101, 114, 32, 97, 116, 32, 105, 110, 100,
      101, 120, 32>>
\* ' has a value of '
M_byteStringValue ==
    <<32, 104, 97, 115, 32, 97, 32, 118, 97, 108, 117, 101, 32, 111,
      102, 32>>
\* ' which is greater than 255.'
M_byteStringEnd ==
    <<32, 119, 104, 105, 99, 104, 32, 105, 115, 32, 103, 114, 101, 97,
      116, 101, 114, 32, 116, 104, 97, 110, 32, 50, 53, 53, 46>>

\* err.message: the messages the worker builds itself, and those of the
\* errors the runtime throws (fetch, JSON parsing, reading a property of
\* null, a KV put, Headers.append)
MessageText(err) ==
    CASE err.error = "Image not found" -> M_imageNotFound \o err.detail
      [] err.error = "Variant not found" -> M_variantNotFound \o err.detail
      [] err.error = "KV namespace not found" -> M_kvNotFound
      [] err.error = "fetch failed" -> M_fetchFailed
      [] err.error = "SyntaxError" -> SyntaxErrorText(err.detail)
      [] err.error = "TypeError" -> M_typeError \o err.detail \o M_typeErrorEnd
      [] err.error = "KV put failed" -> M_putFailed
      [] err.error = "Invalid credentials" -> M_invalidCredentials
      [] err.error = "Headers.append" -> M_headersAppend \o err.detail \o M_invalidHeader
      [] err.error = "ByteString" ->
            LET wide == Min({ i \in 1..Len(err.detail) : err.detail[i] > 255 })
            IN  M_byteStringIndex \o Decimal(wide - 1)
                    \o M_byteStringValue \o Decimal(err.detail[wide])
                    \o M_byteStringEnd

\* err.message.includes('not found')
IncludesNotFound(err) == Includes(MessageText(err), S_notFound)

\* app.onError
onError(err) == Text(IF IncludesNotFound(err) THEN 404 ELSE 500, err.error, err.detail)

\* isKvReady(ctx): rejects when ctx.env.eye is not bound
isKvReady(eye) ==
    IF eye = Undefined THEN Thrown("KV namespace not found", <<>>) ELSE [ok |-> TRUE]

\* the tail of getImage: findImage on the catalog, where JSON.parse(null)
\* gave null and null.find throws
getImageIn(needle, images) ==
    IF images = Null THEN Thrown("TypeError", S_find) ELSE resolveIn(needle, images.items)

\* GET /.lookup/:needle once the catalog is at hand: ctx.json(image), or the
\* error getImage threw, answered by app.onError
LookupResponse(needle, images) ==
    LET found == getImageIn(needle, images)
    IN  IF found.ok THEN Json(found.image) ELSE onError(found)

(***************************************************************************)
(* The image relay, GET /:image/:variant?: the variant and the headers.    *)
(***************************************************************************)
\* a route that passes an absent variant on as the empty string
variantNeedleEmpty(variant) == IF variant = Undefined THEN <<>> ELSE variant.text

\* ctx.req.param().variant ?? 'public'
variantNeedle(variant) == IF variant = Undefined THEN S_public ELSE variant.text

\* a finder that keeps the last URL that ends with the name
findVariantLast(variants, name) ==
    LET hits == { i \in 1..Len(variants) : EndsWith(variants[i], name) }
    IN  IF hits = {}
        THEN Undefined
        ELSE Str(variants[CHOOSE i \in hits : \A j \in hits : j <= i])

\* image.variants.find((v) => v.endsWith(variantNeedle))
findVariant(variants, name) ==
    LET hits == { i \in 1..Len(variants) : EndsWith(variants[i], name) }
    IN  IF hits = {}
        THEN Undefined
        ELSE Str(variants[CHOOSE i \in hits : \A j \in hits : i <= j])

\* !variantUrl: undefined and the empty string are falsy
NoVariantUrl(variantUrl) == variantUrl = Undefined \/ variantUrl.text = <<>>

S_inline == <<105, 110, 108, 105, 110, 101, 59, 32, 102, 105, 108, 101, 110, 97, 109, 101, 61, 34>>

\* `inline; filename="${image.filename}"`
ContentDisposition(filename) == S_inline \o filename \o <<QuoteMark>>

\* the characters a header value may not hold: NUL, line feed, carriage
\* return
HeaderForbidden == {0, 10, 13}

\* a header value normalized: leading and trailing HTTP white space (tab,
\* line feed, carriage return, space) removed
HeaderNormalize(value) ==
    LET inked == { i \in 1..Len(value) : value[i] \notin {9, 10, 13, 32} }
    IN  IF inked = {} THEN <<>>
        ELSE SubSeq(value, Min(inked), CHOOSE i \in inked : \A j \in inked : j <= i)

\* Headers.append(name, value) on a header list: a value with a character
\* above 255 is no ByteString and a TypeError is thrown; the value is
\* normalized; a normalized value that holds a forbidden character throws a
\* TypeError; otherwise the header joins the end of the list, and a header of
\* the same name that is already there stays
append(headers, name, value) ==
    IF \E i \in 1..Len(value) : value[i] > 255
    THEN Thrown("ByteString", value)
    ELSE LET normal == HeaderNormalize(value)
         IN  IF \E i \in 1..Len(normal) : normal[i] \in HeaderForbidden
             THEN Thrown("Headers.append", normal)
             ELSE [ok |-> TRUE,
                   headers |-> Append(headers, [name |-> name, value |-> normal])]

\* the upstream response under a new list of headers
Rewritten(variantResponse, headers) ==
    [status |-> variantResponse.status,
     body |-> variantResponse.body,
     headers |-> headers]

\* the relay of the first revision: Content-Disposition only
RelayedDispositionOnly(variantResponse, image, variantUrl) ==
    LET disposition == append(variantResponse.headers, "Content-Disposition",
                              ContentDisposition(image.filename))
    IN  IF ~disposition.ok THEN onError(disposition)
        ELSE Rewritten(variantResponse, disposition.headers)

\* new Response(variantResponse.body, variantResponse) and the three
\* appends, in order; an append that throws ends the handler and app.onError
\* answers
Relayed(variantResponse, image, variantUrl) ==
    LET disposition == append(variantResponse.headers, "Content-Disposition",
                              ContentDisposition(image.filename))
    IN  IF ~disposition.ok THEN onError(disposition)
        ELSE LET original == append(disposition.headers, "X-Original-Url", variantUrl)
             IN  IF ~original.ok THEN onError(original)
                 ELSE LET imageId == append(original.headers, "X-Image-Id", image.id)
                      IN  IF ~imageId.ok THEN onError(imageId)
                          ELSE Rewritten(variantResponse, imageId.headers)

\* a route goes on at `pc`; a route that has answered is done
GoOn(pc, response, image, variantUrl) ==
    [pc |-> pc, response |-> response, image |-> image, variantUrl |-> variantUrl]
Answer(response) == GoOn("done", response, Null, Null)

\* the relay once getImage has the catalog: the entry, the variant name, the
\* variant URL; then fetch(variantUrl) is issued
RelayStage(needle, variant, images) ==
    LET found == getImageIn(needle, images)
    IN  IF ~found.ok THEN Answer(onError(found))
        ELSE LET name == variantNeedle(variant)
                 variantUrl == findVariant(found.image.variants, name)
             IN  IF NoVariantUrl(variantUrl)
                 THEN Answer(onError(Thrown("Variant not found", name)))
                 ELSE GoOn("fetchVariant", Null, found.image, variantUrl.text)

\* what the caller of getImage does with the catalog: the lookup answers,
\* the relay goes on to the variant
AfterCatalog(kind, needle, variant, images) ==
    IF kind = "relay"
    THEN RelayStage(needle, variant, images)
    ELSE Answer(LookupResponse(needle, images))

(***************************************************************************)
(* Requests.                                                               *)
(***************************************************************************)
Reqs == 1..NumReq

\* pageError is the reply on which fetchAll rejected; nonSuccess tells that
\* some page request of the refresh found the source unreachable or got a
\* non-success status, whatever fetchAll made of the reply
IdleReq ==
    [pc |-> "idle", kind |-> "none", needle |-> <<>>, expired |-> FALSE,
     page |-> 0, images |-> <<>>, requested |-> <<>>, promise |-> Pending,
     fetchDate |-> Null, putImages |-> "none", putLast |-> "none",
     response |-> Null, pageError |-> Null, nonSuccess |-> FALSE,
     accountId |-> Null, apiKey |-> Null,
     body |-> Null, putAccount |-> "none", putKey |-> "none",
     variant |-> Null, catalog |-> Undefined, image |-> Null,
     variantUrl |-> Null, variantResponse |-> Null]

Logged(r, msg) == [req |-> r, msg |-> msg]

\* a route whose first isKvReady rejects: app.onError answers
Unbound(r, kind, needle, variant) ==
    req' = [req EXCEPT ![r] =
              [@ EXCEPT !.pc = "done", !.kind = kind, !.needle = needle,
                        !.variant = variant,
                        !.response = onError(isKvReady(kv))]]

\* getImage up to its cache decision, for the route `kind`: the read of
\* KV_LAST_CACHED lands and isExpired compares it with the clock.  On an
\* expired cache fetchImages is entered and its get('ACCOUNT_ID') is issued;
\* otherwise get('KV_IMAGES') is issued
EnterGetImage(r, kind, needle, variant) ==
    LET expired == isExpired(kv.KV_LAST_CACHED, now)
    IN  req' = [req EXCEPT ![r] =
                  [@ EXCEPT !.pc = IF expired THEN "getAccountId" ELSE "readCache",
                            !.kind = kind, !.needle = needle,
                            !.variant = variant, !.expired = expired]]

\* GET /.lookup/:needle up to the cache decision of getImage
Lookup(r, needle) ==
    /\ req[r].pc = "idle"
    /\ IF ~isKvReady(kv).ok
       THEN Unbound(r, "lookup", needle, Null)
       ELSE EnterGetImage(r, "lookup", needle, Null)
    /\ UNCHANGED <<kv, now, source, log, ticks, call, ret>>

\* GET /:image/:variant? up to the cache decision of getImage; the variant
\* parameter is undefined when the path has one segment
Relay(r, image, variant) ==
    /\ req[r].pc = "idle"
    /\ IF ~isKvReady(kv).ok
       THEN Unbound(r, "relay", image, variant)
       ELSE EnterGetImage(r, "relay", image, variant)
    /\ UNCHANGED <<kv, now, source, log, ticks, call, ret>>

\* fetchImages: await ctx.env.eye.get('ACCOUNT_ID') lands; get('API_KEY') is
\* issued
GetAccountId(r) ==
    /\ req[r].pc = "getAccountId"
    /\ req' = [req EXCEPT ![r] =
                 [@ EXCEPT !.pc = "getApiKey", !.accountId = kv.ACCOUNT_ID]]
    /\ UNCHANGED <<kv, now, source, log, ticks, call, ret>>

\* fetchImages: await ctx.env.eye.get('API_KEY') lands; 'Fetching images...'
\* is logged and fetchAll(1) asks for the first page with the two values read
GetApiKey(r) ==
    /\ req[r].pc = "getApiKey"
    /\ req' = [req EXCEPT ![r] =
                 [@ EXCEPT !.pc = "fetchPage", !.apiKey = kv.API_KEY, !.page = 1]]
    /\ log' = log \cup {Logged(r, "Fetching images from Cloudflare API...")}
    /\ UNCHANGED <<kv, now, source, ticks, call, ret>>

\* a read of a key that no refresh writes
CachedImagesUnwritten(store) == JSONparse(Null)

\* JSON.parse(await ctx.env.eye.get('KV_IMAGES'))
CachedImages(store) == JSONparse(store.KV_IMAGES)

\* getImage on a cache that is not expired: JSON.parse(get('KV_IMAGES'))
\* lands and the route goes on with the catalog
ReadCache(r) ==
    /\ req[r].pc = "readCache"
    /\ LET images == CachedImages(kv)
           after == AfterCatalog(req[r].kind, req[r].needle, req[r].variant, images)
       IN  req' = [req EXCEPT ![r] =
                     [@ EXCEPT !.pc = after.pc,
                               !.catalog = images,
                               !.response = after.response,
                               !.image = after.image,
                               !.variantUrl = after.variantUrl]]
    /\ UNCHANGED <<kv, now, source, log, ticks, call, ret>>

\* GET /.update-cache up to the cache decision: the read of KV_LAST_CACHED
\* lands; 'Cache not expired' is answered, or fetchImages is entered and its
\* get('ACCOUNT_ID') is issued
UpdateCache(r) ==
    /\ req[r].pc = "idle"
    /\ IF ~isKvReady(kv).ok
       THEN Unbound(r, "updateCache", <<>>, Null)
       ELSE IF isExpired(kv.KV_LAST_CACHED, now)
       THEN req' = [req EXCEPT ![r] =
                      [@ EXCEPT !.pc = "getAccountId", !.kind = "updateCache",
                                !.expired = TRUE]]
       ELSE req' = [req EXCEPT ![r] =
                      [@ EXCEPT !.pc = "done", !.kind = "updateCache",
                                !.response = Text(200, "Cache not expired", <<>>)]]
    /\ UNCHANGED <<kv, now, source, log, ticks, call, ret>>

\* GET /.expire-cache
ExpireCache(r) ==
    /\ req[r].pc = "idle"
    /\ IF ~isKvReady(kv).ok
       THEN /\ Unbound(r, "expireCache", <<>>, Null)
            /\ UNCHANGED <<kv, log>>
       ELSE /\ kv' = [kv EXCEPT !.KV_LAST_CACHED = Null]
            /\ log' = log \cup {Logged(r, "Cache expired")}
            /\ req' = [req EXCEPT ![r] =
                         [@ EXCEPT !.pc = "done", !.kind = "expireCache",
                                   !.response = Text(200, "Cache expired", <<>>)]]
    /\ UNCHANGED <<now, source, ticks, call, ret>>

\* what the caller of fetchImages does once the promise is settled:
\* getImage's findImage for a lookup or a relay, 'Cache updated' for
\* /.update-cache, app.onError for a rejection
AfterFetch(kind, needle, variant, promise) ==
    IF promise.state = "rejected"
    THEN Answer(onError(promise.reason))
    ELSE IF kind = "updateCache"
         THEN Answer(Text(200, "Cache updated", <<>>))
         ELSE AfterCatalog(kind, needle, variant, Arr(promise.value))

\* fetchAll(page): the envelope of the page arrives under `status`, which is
\* never read.  After the last page resolve(images) runs, the two puts are
\* issued together, and the caller's continuation (a microtask) runs before
\* any put completes: it answers, or, for a relay, issues fetch(variantUrl)
FetchPageOk(r, status) ==
    /\ req[r].pc = "fetchPage"
    /\ CredentialsAccepted(req[r].accountId, req[r].apiKey)
    /\ LET response == PageResponse(status, PageOf(source, req[r].page))
           batch == PageImages(response).images
           images == req[r].images \o batch
           asked == Append(req[r].requested, req[r].page)
           settled == SettleResolve(req[r].promise, images)
           after == AfterFetch(req[r].kind, req[r].needle, req[r].variant, settled)
           nonSuccess == req[r].nonSuccess \/ NonSuccess(response)
       IN  IF NeedsNextPage(batch)
           THEN /\ req' = [req EXCEPT ![r] =
                            [@ EXCEPT !.images = images, !.requested = asked,
                                      !.nonSuccess = nonSuccess,
                                      !.page = @ + 1]]
                /\ log' = log
           ELSE /\ req' = [req EXCEPT ![r] =
                            [@ EXCEPT !.images = images, !.requested = asked,
                                      !.nonSuccess = nonSuccess,
                                      !.pc = after.pc,
                                      !.promise = settled,
                                      !.fetchDate = toISOString(now),
                                      !.putImages = "pending",
                                      !.putLast = "pending",
                                      !.catalog = IF req[r].kind = "updateCache"
                                                  THEN @ ELSE Arr(images),
                                      !.response = after.response,
                                      !.image = after.image,
                                      !.variantUrl = after.variantUrl]]
                /\ log' = log \cup {Logged(r, "Fetched images from Cloudflare API")}
    /\ UNCHANGED <<kv, now, source, ticks, call, ret>>

\* fetchAll rejected: .catch(reject) rejects fetchImages' promise; the images
\* accumulated so far are dropped
FailRefresh(promise, images, reason) == SettleReject(promise, reason)

\* a fetcher that asks for the failed page again
AfterPageFailureRetry == "fetchPage"

\* where a refresh stands after a failed page request: fetchAll has no
\* handler and no loop, the rejection ends the run
AfterPageFailure == "done"

\* fetchAll(page): fetch rejects, or the body is not the expected JSON; the
\* rejection reaches .catch(reject) and the caller answers the error
FetchPageFail(r) ==
    /\ req[r].pc = "fetchPage"
    /\ \E response \in FailedResponses(req[r].accountId, req[r].apiKey) :
          LET settled == FailRefresh(req[r].promise, req[r].images,
                                     PageImages(response))
          IN  req' = [req EXCEPT ![r] =
                        [@ EXCEPT !.requested = Append(@, req[r].page),
                                  !.pc = AfterPageFailure,
                                  !.promise = settled,
                                  !.pageError = response,
                                  !.nonSuccess = @ \/ NonSuccess(response),
                                  !.response = AfterFetch(req[r].kind, req[r].needle,
                                                          req[r].variant,
                                                          settled).response]]
    /\ UNCHANGED <<kv, now, source, log, ticks, call, ret>>

\* Promise.all([...]).then(... console.log(`Images cached on KV: ...`)) runs
\* once both puts have succeeded
CachedLog(r, other) ==
    IF other = "ok" THEN {Logged(r, "Images cached on KV")} ELSE {}

\* put('KV_IMAGES', JSON.stringify(images)) succeeds
PutImagesOk(r) ==
    /\ req[r].putImages = "pending"
    /\ kv' = [kv EXCEPT !.KV_IMAGES = PutValue(@, JSONstringify(req[r].images))]
    /\ req' = [req EXCEPT ![r] = [@ EXCEPT !.putImages = "ok"]]
    /\ log' = log \cup CachedLog(r, req[r].putLast)
    /\ UNCHANGED <<now, source, ticks, call, ret>>

\* put('KV_IMAGES', ...) fails: Promise.all rejects, .catch(reject) runs
PutImagesFail(r) ==
    /\ req[r].putImages = "pending"
    /\ req' = [req EXCEPT ![r] =
                 [@ EXCEPT !.putImages = "failed",
                           !.promise = SettleReject(@, Thrown("KV put failed", <<>>))]]
    /\ UNCHANGED <<kv, now, source, log, ticks, call, ret>>

\* put('KV_LAST_CACHED', fetchDate) succeeds
PutLastOk(r) ==
    /\ req[r].putLast = "pending"
    /\ kv' = [kv EXCEPT !.KV_LAST_CACHED = PutValue(@, req[r].fetchDate)]
    /\ req' = [req EXCEPT ![r] = [@ EXCEPT !.putLast = "ok"]]
    /\ log' = log \cup CachedLog(r, req[r].putImages)
    /\ UNCHANGED <<now, source, ticks, call, ret>>

\* put('KV_LAST_CACHED', ...) fails
PutLastFail(r) ==
    /\ req[r].putLast = "pending"
    /\ req' = [req EXCEPT ![r] =
                 [@ EXCEPT !.putLast = "failed",
                           !.promise = SettleReject(@, Thrown("KV put failed", <<>>))]]
    /\ UNCHANGED <<kv, now, source, log, ticks, call, ret>>

\* the relay: fetch(variantUrl) ends.  A rejected fetch goes to app.onError;
\* otherwise the response is rewritten with the three headers
RelayVariantFetched(r, variantResponse) ==
    /\ req[r].pc = "fetchVariant"
    /\ req' = [req EXCEPT ![r] =
                 [@ EXCEPT !.pc = "done",
                           !.variantResponse = variantResponse,
                           !.response =
                               IF ~variantResponse.reachable
                               THEN onError(Thrown("fetch failed", <<>>))
                               ELSE Relayed(variantResponse, req[r].image,
                                            req[r].variantUrl)]]
    /\ UNCHANGED <<kv, now, source, log, ticks, call, ret>>

\* the bodies POST /setup is called with: the credentials the API accepts,
\* and an account id with a wrong token
S_wrongKey == <<110, 111>>                        \* "no"

SetupBodies ==
    { [ACCOUNT_ID |-> S_account, API_KEY |-> S_apiKey],
      [ACCOUNT_ID |-> S_account, API_KEY |-> S_wrongKey] }

\* POST /setup: the body is read and the check request
\* fetch(CF_IMAGES_API(ACCOUNT_ID, 1), HEADERS(API_KEY)) is issued
Setup(r, body) ==
    /\ req[r].pc = "idle"
    /\ req' = [req EXCEPT ![r] =
                 [@ EXCEPT !.pc = "setupCheck", !.kind = "setup", !.body = body]]
    /\ UNCHANGED <<kv, now, source, log, ticks, call, ret>>

\* what the API answers to the check request of POST /setup, which asks for
\* page 1 and reads the status only
CheckResponses(body) ==
    FailedResponses(Str(body.ACCOUNT_ID), Str(body.API_KEY))
        \cup (IF CredentialsAccepted(Str(body.ACCOUNT_ID), Str(body.API_KEY))
              THEN {PageResponse(status, <<>>) : status \in PageStatuses}
              ELSE {})

\* POST /setup: the check request ends.  A rejected fetch,
\* `if (!res.ok) throw new Error('Invalid credentials')` and a rejected
\* isKvReady go to app.onError; otherwise the two puts are issued together
SetupChecked(r) ==
    /\ req[r].pc = "setupCheck"
    /\ \E response \in CheckResponses(req[r].body) :
          IF ~response.reachable
          THEN req' = [req EXCEPT ![r] =
                         [@ EXCEPT !.pc = "done",
                                   !.response = onError(Thrown("fetch failed", <<>>))]]
          ELSE IF ~ResponseOk(response)
          THEN req' = [req EXCEPT ![r] =
                         [@ EXCEPT !.pc = "done",
                                   !.response = onError(Thrown("Invalid credentials", <<>>))]]
          ELSE IF ~isKvReady(kv).ok
          THEN req' = [req EXCEPT ![r] =
                         [@ EXCEPT !.pc = "done",
                                   !.response = onError(isKvReady(kv))]]
          ELSE req' = [req EXCEPT ![r] =
                         [@ EXCEPT !.pc = "setupPuts", !.putAccount = "pending",
                                   !.putKey = "pending"]]
    /\ UNCHANGED <<kv, now, source, log, ticks, call, ret>>

\* POST /setup: put('ACCOUNT_ID', ACCOUNT_ID) lands; once both puts have
\* landed 'Setup complete' is answered
SetupPutAccountOk(r) ==
    /\ req[r].putAccount = "pending"
    /\ kv' = [kv EXCEPT !.ACCOUNT_ID = PutValue(@, Str(req[r].body.ACCOUNT_ID))]
    /\ req' = [req EXCEPT ![r] =
                 [@ EXCEPT !.putAccount = "ok",
                           !.pc = IF req[r].putKey = "ok" THEN "done" ELSE @,
                           !.response = IF req[r].putKey = "ok"
                                        THEN Text(200, "Setup complete", <<>>)
                                        ELSE @]]
    /\ UNCHANGED <<now, source, log, ticks, call, ret>>

\* POST /setup: put('API_KEY', API_KEY) lands
SetupPutKeyOk(r) ==
    /\ req[r].putKey = "pending"
    /\ kv' = [kv EXCEPT !.API_KEY = PutValue(@, Str(req[r].body.API_KEY))]
    /\ req' = [req EXCEPT ![r] =
                 [@ EXCEPT !.putKey = "ok",
                           !.pc = IF req[r].putAccount = "ok" THEN "done" ELSE @,
                           !.response = IF req[r].putAccount = "ok"
                                        THEN Text(200, "Setup complete", <<>>)
                                        ELSE @]]
    /\ UNCHANGED <<now, source, log, ticks, call, ret>>

\* POST /setup: one of the two puts fails; Promise.all rejects with the
\* first failure, which app.onError answers
SetupPutFail(r) ==
    /\ \E key \in {"putAccount", "putKey"} :
          /\ req[r][key] = "pending"
          /\ req' = [req EXCEPT ![r] =
                       [@ EXCEPT ![key] = "failed",
                                 !.pc = "done",
                                 !.response = IF @ = Null
                                              THEN onError(Thrown("KV put failed", <<>>))
                                              ELSE @]]
    /\ UNCHANGED <<kv, now, source, log, ticks, call, ret>>

(***************************************************************************)
(* The environment: the clock and the remote catalog.                      *)
(***************************************************************************)
TickSteps == {1, TTL + 1}

\* the wall clock advances, by a millisecond or by more than the lifetime
\* of the cache, whatever the requests are doing
Tick ==
    /\ ticks < MaxTicks
    /\ \E d \in TickSteps : now' = now + d
    /\ ticks' = ticks + 1
    /\ UNCHANGED <<kv, source, req, log, call, ret>>

\* the catalogs the remote source serves in the system specification, each
\* a single short page
SysSources ==
    { << <<Image(<<99, 52>>, S_cat \o S_png)>> >>,
      << <<Image(<<100, 48>>, S_cat \o S_jpg), Image(<<99, 52>>, S_cat \o S_png)>> >> }

\* "d0.png": the id of an image of the larger catalog only
SysNeedles == { <<100, 48>> \o S_png }

\* images are uploaded to or deleted from Cloudflare Images; a change shows
\* only through the next page fetched, so it is taken while a fetch is due
SourceChange ==
    /\ \E r \in Reqs : req[r].pc = "fetchPage"
    /\ source' \in SysSources \ {source}
    /\ UNCHANGED <<kv, now, req, log, ticks, call, ret>>

S_thumb == <<116, 104, 117, 109, 98>>                 \* "thumb"
S_xpublic == <<120, 112, 117, 98, 108, 105, 99>>     \* "xpublic"
S_ic == <<105, 99>>                                \* "ic"
S_c4 == <<99, 52>>                                \* "c4"
S_type == <<105, 109, 97, 103, 101, 47, 112, 110, 103>>
S_attachment == <<97, 116, 116, 97, 99, 104, 109, 101, 110, 116>>

\* an upstream answer to fetch(variantUrl)
VariantResponse(status, headers, bytes) ==
    [reachable |-> TRUE, status |-> status, headers |-> headers,
     body |-> [bytes |-> bytes]]

\* the variant asked for and what fetch(variantUrl) brings back in the
\* system specification: no variant or one no image has; nothing, or an image
SysVariants == { Undefined, Str(S_thumb) }
SysVariantResponses ==
    { Unreachable,
      VariantResponse(200, <<[name |-> "Content-Type", value |-> S_type]>>, 1) }

\* requests are numbered in their order of arrival
NextToArrive(r) == \A q \in 1..(r - 1) : req[q].pc # "idle"

\* the namespace after POST /setup and before the first refresh
ColdKv ==
    [KV_IMAGES |-> Null, KV_LAST_CACHED |-> Null,
     ACCOUNT_ID |-> [tag |-> "string", text |-> S_account],
     API_KEY |-> [tag |-> "string", text |-> S_apiKey]]

\* the namespace as bound, before POST /setup
EmptyKv == [ColdKv EXCEPT !.ACCOUNT_ID = Null, !.API_KEY = Null]

Init ==
    /\ kv \in {EmptyKv, ColdKv}
    /\ now = 0
    /\ source \in SysSources
    /\ req = [r \in Reqs |-> IdleReq]
    /\ log = {}
    /\ ticks = 0
    /\ call = NoCall
    /\ ret = NoRet

Next ==
    \/ \E r \in Reqs, n \in SysNeedles : NextToArrive(r) /\ Lookup(r, n)
    \/ \E r \in Reqs, n \in SysNeedles, v \in SysVariants :
          NextToArrive(r) /\ Relay(r, n, v)
    \/ \E r \in Reqs, response \in SysVariantResponses : RelayVariantFetched(r, response)
    \/ \E r \in Reqs : NextToArrive(r) /\ UpdateCache(r)
    \/ \E r \in Reqs : NextToArrive(r) /\ ExpireCache(r)
    \/ \E r \in Reqs, body \in SetupBodies : NextToArrive(r) /\ Setup(r, body)
    \/ \E r \in Reqs : SetupChecked(r)
    \/ \E r \in Reqs : SetupPutAccountOk(r)
    \/ \E r \in Reqs : SetupPutKeyOk(r)
    \/ \E r \in Reqs : SetupPutFail(r)
    \/ \E r \in Reqs : ReadCache(r)
    \/ \E r \in Reqs : GetAccountId(r)
    \/ \E r \in Reqs : GetApiKey(r)
    \/ \E r \in Reqs, status \in PageStatuses : FetchPageOk(r, status)
    \/ \E r \in Reqs : FetchPageFail(r)
    \/ \E r \in Reqs : PutImagesOk(r)
    \/ \E r \in Reqs : PutImagesFail(r)
    \/ \E r \in Reqs : PutLastOk(r)
    \/ \E r \in Reqs : PutLastFail(r)
    \/ Tick
    \/ SourceChange

Spec == Init /\ [][Next]_vars

(***************************************************************************)
(* The lookup resolver on drawn catalogs and needles.                      *)
(***************************************************************************)
Quiet ==
    /\ kv = ColdKv
    /\ now = 0
    /\ source = <<>>
    /\ req = [r \in Reqs |-> IdleReq]
    /\ log = {}
    /\ ticks = 0

InitResolve ==
    /\ Quiet
    /\ call \in [fn : {"resolve"}, needle : Needles, images : Catalogs]
    /\ ret = NoRet

ResolveCall ==
    /\ call.fn = "resolve"
    /\ ret = NoRet
    /\ ret' = Returned(resolveIn(call.needle, call.images))
    /\ UNCHANGED <<kv, now, source, req, log, ticks, call>>

SpecResolve == InitResolve /\ [][ResolveCall]_vars

(***************************************************************************)
(* The expiry policy on drawn timestamps and clocks.                       *)
(***************************************************************************)
Times ==
    { t \in { k * TTL + o : k \in 0..MaxDays, o \in {-1, 0, 1, 3723004} } : t >= 0 }

\* lastCached is absent, or what toISOString wrote at the time `written`
InitExpiry ==
    /\ Quiet
    /\ \E absent \in BOOLEAN, w \in Times, c \in Times :
           call = [fn |-> "isExpired", absent |-> absent, written |-> w,
                   lastCached |-> IF absent THEN Null ELSE toISOString(w),
                   clock |-> c]
    /\ ret = NoRet

ExpiryCall ==
    /\ call.fn = "isExpired"
    /\ ret = NoRet
    /\ ret' = Returned(isExpired(call.lastCached, call.clock))
    /\ UNCHANGED <<kv, now, source, req, log, ticks, call>>

SpecExpiry == InitExpiry /\ [][ExpiryCall]_vars

(***************************************************************************)
(* One refresh against drawn remote sources of several pages.              *)
(***************************************************************************)
PageSizes == {0, ShortPage, BATCH_SIZE - 1, BATCH_SIZE}

\* the i-th image of page p: id "<p><iii>", filename "f<p><iii>"
Filler(p, i) ==
    LET id == <<48 + p, 48 + (i \div 100), 48 + ((i \div 10) % 10), 48 + (i % 10)>>
    IN  [id |-> id, filename |-> <<102>> \o id, variants |-> <<>>]

SourceOf(sizes) ==
    [p \in 1..Len(sizes) |-> [i \in 1..sizes[p] |-> Filler(p, i)]]

PagedSources ==
    UNION { { SourceOf(sizes) : sizes \in [1..n -> PageSizes] } : n \in 0..MaxPages }

\* a needle that names the first image of the first page
FetchNeedles == {<<102, 49, 48, 48, 49>>}         \* "f1001"

\* the first request walks the pages (or, in SpecRelay, is the relay); the
\* others are calls of other routes beside it
FirstReq == {r \in Reqs : r - 1 = 0}
OtherReqs == Reqs \ FirstReq

\* the run starts on a cold cache, before or after POST /setup
InitFetch ==
    /\ kv \in {EmptyKv, ColdKv}
    /\ now = 0
    /\ source \in PagedSources
    /\ req = [r \in Reqs |-> IdleReq]
    /\ log = {}
    /\ ticks = 0
    /\ call = NoCall
    /\ ret = NoRet

NextFetch ==
    \/ \E r \in FirstReq : UpdateCache(r)
    \/ \E r \in FirstReq, needle \in FetchNeedles : Lookup(r, needle)
    \/ \E r \in OtherReqs, body \in SetupBodies : Setup(r, body)
    \/ \E r \in Reqs : SetupChecked(r)
    \/ \E r \in Reqs : SetupPutAccountOk(r)
    \/ \E r \in Reqs : SetupPutKeyOk(r)
    \/ \E r \in Reqs : SetupPutFail(r)
    \/ \E r \in Reqs : GetAccountId(r)
    \/ \E r \in Reqs : GetApiKey(r)
    \/ \E r \in Reqs, status \in PageStatuses : FetchPageOk(r, status)
    \/ \E r \in Reqs : FetchPageFail(r)
    \/ \E r \in Reqs : PutImagesOk(r)
    \/ \E r \in Reqs : PutImagesFail(r)
    \/ \E r \in Reqs : PutLastOk(r)
    \/ \E r \in Reqs : PutLastFail(r)
    \/ Tick

SpecFetch == InitFetch /\ [][NextFetch]_vars

(***************************************************************************)
(* The image relay on drawn catalogs, requests and upstream answers, with  *)
(* requests of the other routes beside it.                                 *)
(***************************************************************************)
\* the variant lists drawn: one URL, the requested one not first, two URLs
\* that end with the same name, no public variant, no variant at all
VariantLists ==
    { <<VariantUrl(S_c4, S_public)>>,
      <<VariantUrl(S_c4, S_thumb), VariantUrl(S_c4, S_public)>>,
      <<VariantUrl(S_c4, S_xpublic), VariantUrl(S_c4, S_public)>>,
      <<VariantUrl(S_c4, S_thumb)>>,
      <<>> }

\* the images drawn: "cat.png" with id "c4" under each variant list, and
\* three images whose id or file name Headers.append changes or refuses: an
\* id that ends with a space, a file name with a line feed in it, and a file
\* name with a character above 255 (U+732B)
RelayImages ==
    { [id |-> S_c4, filename |-> S_cat \o S_png, variants |-> v] : v \in VariantLists }
      \cup { [id |-> S_c4 \o <<32>>, filename |-> S_cat \o S_png,
              variants |-> <<VariantUrl(S_c4, S_public)>>],
             [id |-> S_c4, filename |-> S_cat \o <<10>> \o S_png,
              variants |-> <<VariantUrl(S_c4, S_public)>>],
             [id |-> S_c4, filename |-> S_cat \o <<29483>> \o S_png,
              variants |-> <<VariantUrl(S_c4, S_public)>>] }

\* the remote catalogs: one image, or none
RelaySources == { << <<image>> >> : image \in RelayImages } \cup { <<>> }

RelayNeedles == { S_cat \o S_png, S_c4, S_dog }

RelayVariants == { Undefined } \cup { Str(n) : n \in {S_public, S_thumb, S_ic} }

\* what fetch(variantUrl) brings back: nothing, or a status, headers and a body
VariantResponses ==
    { Unreachable,
      VariantResponse(200, <<>>, 1),
      VariantResponse(200, <<[name |-> "Content-Type", value |-> S_type]>>, 2),
      VariantResponse(404, <<[name |-> "Content-Disposition", value |-> S_attachment],
                             [name |-> "Content-Type", value |-> S_type]>>, 1) }

\* the first request is the relay; the others are calls of the other
\* routes, which land at any time.  The relay's page requests are answered
\* under every status of PageStatuses; those of the other routes under
\* status 200, since what they leave in the store does not depend on the
\* status

\* the run starts without the namespace bound, or on a cold cache before or
\* after POST /setup
InitRelay ==
    /\ kv \in {Undefined, EmptyKv, ColdKv}
    /\ now = 0
    /\ source \in RelaySources
    /\ req = [r \in Reqs |-> IdleReq]
    /\ log = {}
    /\ ticks = 0
    /\ call = NoCall
    /\ ret = NoRet

NextRelay ==
    \/ \E r \in FirstReq, image \in RelayNeedles, variant \in RelayVariants :
          Relay(r, image, variant)
    \/ \E r \in OtherReqs : ExpireCache(r)
    \/ \E r \in OtherReqs : UpdateCache(r)
    \/ \E r \in OtherReqs, needle \in SysNeedles : Lookup(r, needle)
    \/ \E r \in OtherReqs, body \in SetupBodies : Setup(r, body)
    \/ \E r \in Reqs : SetupChecked(r)
    \/ \E r \in Reqs : SetupPutAccountOk(r)
    \/ \E r \in Reqs : SetupPutKeyOk(r)
    \/ \E r \in Reqs : SetupPutFail(r)
    \/ \E r \in Reqs : ReadCache(r)
    \/ \E r \in Reqs : GetAccountId(r)
    \/ \E r \in Reqs : GetApiKey(r)
    \/ \E r \in FirstReq, status \in PageStatuses : FetchPageOk(r, status)
    \/ \E r \in OtherReqs : FetchPageOk(r, 200)
    \/ \E r \in Reqs : FetchPageFail(r)
    \/ \E r \in Reqs : PutImagesOk(r)
    \/ \E r \in Reqs : PutImagesFail(r)
    \/ \E r \in Reqs : PutLastOk(r)
    \/ \E r \in Reqs : PutLastFail(r)
    \/ \E r \in Reqs, response \in VariantResponses : RelayVariantFetched(r, response)
    \/ Tick

SpecRelay == InitRelay /\ [][NextRelay]_vars

(***************************************************************************)
(* stripExt on drawn needles.                                              *)
(***************************************************************************)
\* the characters drawn: '.', '1', '@', 'Z', '[', '_', 'a', '{' - a digit,
\* letters of both cases, characters of 91..96, and the neighbours of the
\* ends of the class
NeedleChars == {46, 49, 64, 90, 91, 95, 97, 123}

\* every string over NeedleChars of at most MaxNeedle characters
NeedleTexts == UNION { [1..n -> NeedleChars] : n \in 0..MaxNeedle }

InitStrip ==
    /\ Quiet
    /\ call \in [fn : {"stripExt"}, filename : NeedleTexts]
    /\ ret = NoRet

StripCall ==
    /\ call.fn = "stripExt"
    /\ ret = NoRet
    /\ ret' = Returned(stripExt(call.filename))
    /\ UNCHANGED <<kv, now, source, req, log, ticks, call>>

SpecStrip == InitStrip /\ [][StripCall]_vars

(***************************************************************************)
(* Properties of the lookup resolver (SpecResolve).                        *)
(***************************************************************************)
Resolved == call.fn = "resolve" /\ ret # NoRet

UniqueFilenames(images) ==
    \A i, j \in 1..Len(images) : i # j => images[i].filename # images[j].filename

\* C1: a needle equal to the exact filename or the exact id of an entry e of
\* the catalog resolves to e, whatever the other entries and their order.
\* Stated for catalogs whose filenames are unique as well as their ids, so
\* that "the entry with that filename" is a single entry.
C1_ExactNeedleReturnsEntry ==
    (Resolved /\ UniqueFilenames(call.images)) =>
        \A i \in 1..Len(call.images) :
            (call.needle = call.images[i].filename \/ call.needle = call.images[i].id)
                => ret.value = Found(call.images[i])

\* C2 as claimed: when some entry's filename starts with the stripped needle,
\* the entry returned is one matched by filename prefix.
C2_FilenamePriority ==
    Resolved =>
        LET n == stripExt(call.needle)
        IN  (\E i \in 1..Len(call.images) : StartsWith(call.images[i].filename, n))
                => /\ ret.value.ok
                   /\ StartsWith(ret.value.image.filename, n)

\* C2 as amended: the entry returned is the first one, in catalog order, whose
\* filename or id starts with the stripped needle; no entry before it matches
\* in either way, and some entry is returned whenever one matches.
C2_FirstMatchInCatalogOrder ==
    Resolved =>
        LET n == stripExt(call.needle)
            hit(i) == \/ StartsWith(call.images[i].filename, n)
                      \/ StartsWith(call.images[i].id, n)
        IN  /\ ret.value.ok <=> \E i \in 1..Len(call.images) : hit(i)
            /\ ret.value.ok =>
                  \E k \in 1..Len(call.images) :
                      /\ call.images[k] = ret.value.image
                      /\ hit(k)
                      /\ \A j \in 1..(k - 1) : ~hit(j)

\* C2 witness: the entry returned matches by id only, and a later entry of the
\* catalog matches by filename.
C2_Witness ==
    /\ Resolved
    /\ ret.value.ok
    /\ ~StartsWith(ret.value.image.filename, stripExt(call.needle))
    /\ StartsWith(ret.value.image.id, stripExt(call.needle))
    /\ Len(call.images) = 2
    /\ call.images[1] = ret.value.image
    /\ StartsWith(call.images[2].filename, stripExt(call.needle))

SameOutcome(a, b) == a.ok = b.ok /\ (a.ok => a.image = b.image)

\* C3: for a filename f of the catalog and an extension x (a dot and letters),
\* resolve(f x) gives the entry resolve(f) gives, or both fail.
C3_ExtensionAppended ==
    Resolved =>
        \A i \in 1..Len(call.images) : \A x \in Exts :
            call.needle = call.images[i].filename \o x
                => SameOutcome(ret.value,
                               resolveIn(call.images[i].filename, call.images))

\* C4: an entry is returned only if it is a member of the catalog whose
\* filename or id starts with the stripped needle; when no entry matches
\* (the empty catalog included) the call throws "Image not found: <needle>"
\* and returns no entry.
C4_OnlyMatchingMemberOrNotFound ==
    Resolved =>
        LET n == stripExt(call.needle)
            hit(i) == \/ StartsWith(call.images[i].filename, n)
                      \/ StartsWith(call.images[i].id, n)
        IN  IF \E i \in 1..Len(call.images) : hit(i)
            THEN /\ ret.value.ok
                 /\ \E i \in 1..Len(call.images) :
                        call.images[i] = ret.value.image /\ hit(i)
            ELSE ret.value = Thrown("Image not found", call.needle)

\* C4 witness: a needle that no entry of a non-empty catalog matches, and a
\* call that threw.
C4_Witness ==
    /\ Resolved
    /\ Len(call.images) > 0
    /\ ~ret.value.ok
    /\ ret.value.error = "Image not found"

(***************************************************************************)
(* Properties of the paginated refresh (SpecFetch).                        *)
(***************************************************************************)
SizeOfPage(p) == IF p \in 1..Len(source) THEN Len(source[p]) ELSE 0

\* the first page that holds fewer than BATCH_SIZE entries
FirstShortPage == Min({ p \in 1..(Len(source) + 1) : SizeOfPage(p) < BATCH_SIZE })

RECURSIVE PagesUpTo(_)
PagesUpTo(k) == IF k = 0 THEN <<>> ELSE PagesUpTo(k - 1) \o source[k]

\* the source serves a list of entries in pages: every page but the last is full
ServesAList == \A p \in 1..(Len(source) - 1) : Len(source[p]) = BATCH_SIZE

RECURSIVE TotalEntries(_)
TotalEntries(k) == IF k = 0 THEN 0 ELSE TotalEntries(k - 1) + Len(source[k])

\* C5: a refresh requests pages 1, 2, ..., k in that order, each once, where k
\* is the first page with fewer than BATCH_SIZE entries, and returns the
\* concatenation of pages 1..k; a source of N entries yields N catalog
\* entries and floor(N / BATCH_SIZE) + 1 page requests.
C5_PagesUpToFirstShort ==
    \A r \in Reqs :
        /\ req[r].requested = [i \in 1..Len(req[r].requested) |-> i]
        /\ Len(req[r].requested) <= FirstShortPage
        /\ req[r].promise.state = "fulfilled" =>
              LET k == FirstShortPage
                  last == IF k > Len(source) THEN Len(source) ELSE k
              IN  /\ req[r].requested = [i \in 1..k |-> i]
                  /\ req[r].promise.value = PagesUpTo(last)
                  /\ ServesAList =>
                        LET N == TotalEntries(Len(source))
                        IN  /\ Len(req[r].promise.value) = N
                            /\ Len(req[r].requested) = (N \div BATCH_SIZE) + 1

\* C5 witness: three full pages, a fourth request that came back empty, and a
\* catalog of three full pages.
C5_Witness ==
    \E r \in Reqs :
        /\ req[r].promise.state = "fulfilled"
        /\ Len(source) = 3
        /\ \A p \in 1..3 : Len(source[p]) = BATCH_SIZE
        /\ req[r].requested = <<1, 2, 3, 4>>
        /\ Len(req[r].promise.value) = 3 * BATCH_SIZE

(***************************************************************************)
(* Properties of the expiry policy (SpecExpiry).                           *)
(***************************************************************************)
ExpiryAnswered == call.fn = "isExpired" /\ ret # NoRet

Hours24 == 24 * 60 * 60 * 1000

\* C6 as claimed: true when KV_LAST_CACHED is absent, otherwise true exactly
\* when now - lastFetchedAt >= 24 hours.
C6_ExpiredAtTTL ==
    ExpiryAnswered =>
        ret.value = (call.absent \/ call.clock - call.written >= Hours24)

\* C6 as amended: true when KV_LAST_CACHED is absent, otherwise true exactly
\* when now - lastFetchedAt > 24 hours; false when exactly 24 hours elapsed.
C6_ExpiredPastTTL ==
    ExpiryAnswered =>
        ret.value = (call.absent \/ call.clock - call.written > Hours24)

\* C6 witness: exactly 24 hours after the timestamp was written, isExpired
\* answered false.
C6_Witness ==
    /\ ExpiryAnswered
    /\ ~call.absent
    /\ call.clock - call.written = Hours24
    /\ ret.value = FALSE

(***************************************************************************)
(* Properties of the running system (Spec).                                *)
(***************************************************************************)
\* the refresh of request r has handed its catalog to its caller
RefreshReturned(r) == req[r].promise.state = "fulfilled"

\* both puts of request r's refresh have ended, well or not
PersistenceEnded(r) ==
    /\ req[r].putImages \in {"ok", "failed"}
    /\ req[r].putLast \in {"ok", "failed"}

NoManualExpiry == \A q \in Reqs : req[q].kind # "expireCache"

\* C7: once a refresh has returned its catalog to its caller (and, for
\* /.update-cache, the answer 'Cache updated' is out), isExpired called before
\* 24 hours have passed returns false.  Stated for runs without /.expire-cache.
C7_FreshAfterRefresh ==
    \A r \in Reqs :
        (/\ RefreshReturned(r)
         /\ NoManualExpiry
         /\ now - DateParse(req[r].fetchDate) < Hours24)
            => ~isExpired(kv.KV_LAST_CACHED, now)

\* the requests whose put of KV_IMAGES has landed
ImageWriters == { r \in Reqs : req[r].putImages = "ok" }

\* C8: every request that observed an expired cache runs its own page
\* requests from page 1, whatever the other requests do; and KV_IMAGES holds
\* nothing until a put lands, then exactly the catalog fetched by one of the
\* runs whose put landed: never a merge, never a part of one.
C8_LastWriterWins ==
    /\ \A r \in Reqs :
          (req[r].expired /\ req[r].pc = "done") =>
              /\ Len(req[r].requested) >= 1
              /\ req[r].requested = [i \in 1..Len(req[r].requested) |-> i]
    /\ IF ImageWriters = {}
       THEN kv.KV_IMAGES = Null
       ELSE \E r \in ImageWriters :
                kv.KV_IMAGES = [tag |-> "json", array |-> req[r].promise.value]

\* C8 witness: two requests both saw the cache expired, fetched different
\* catalogs, and both have finished persisting, both puts of KV_IMAGES landed.
C8_Witness ==
    \E r1, r2 \in Reqs :
        /\ r1 # r2
        /\ req[r1].expired /\ req[r2].expired
        /\ RefreshReturned(r1) /\ RefreshReturned(r2)
        /\ req[r1].promise.value # req[r2].promise.value
        /\ PersistenceEnded(r1) /\ PersistenceEnded(r2)
        /\ req[r1].putImages = "ok" /\ req[r2].putImages = "ok"
        /\ kv.KV_IMAGES = [tag |-> "json", array |-> req[r1].promise.value]

PutFailed(r) == req[r].putImages = "failed" \/ req[r].putLast = "failed"

AnyMatch(needle, images) ==
    \E i \in 1..Len(images) :
        \/ StartsWith(images[i].filename, stripExt(needle))
        \/ StartsWith(images[i].id, stripExt(needle))

\* C9: a failed put of KV_IMAGES or of KV_LAST_CACHED leaves the outcome of
\* the request as it was: the promise of the refresh stays fulfilled with the
\* whole accumulated catalog, /.update-cache has answered 'Cache updated', a
\* lookup has answered 200 exactly when the fetched catalog holds a match,
\* and a relay has answered not found or fetches the variant URL as the
\* fetched catalog has it.
C9_PersistFailureKeepsOutcome ==
    \A r \in Reqs :
        PutFailed(r) =>
            /\ req[r].promise = [state |-> "fulfilled", value |-> req[r].images]
            /\ req[r].kind = "updateCache" =>
                  /\ req[r].response.status = 200
                  /\ req[r].response.body.text = "Cache updated"
            /\ req[r].kind = "lookup" =>
                  IF AnyMatch(req[r].needle, req[r].images)
                  THEN req[r].response.status = 200
                  ELSE req[r].response.status = 404
            /\ req[r].kind = "relay" =>
                  LET stage == RelayStage(req[r].needle, req[r].variant,
                                          Arr(req[r].images))
                  IN  IF stage.pc = "done"
                      THEN req[r].pc = "done" /\ req[r].response = stage.response
                      ELSE /\ req[r].pc \in {"fetchVariant", "done"}
                           /\ req[r].image = stage.image
                           /\ req[r].variantUrl = stage.variantUrl

\* C9 witness: a lookup answered 200 from a non-empty fetched catalog, and
\* both of its puts failed.
C9_Witness ==
    \E r \in Reqs :
        /\ req[r].kind = "lookup"
        /\ req[r].putImages = "failed"
        /\ req[r].putLast = "failed"
        /\ Len(req[r].images) > 0
        /\ req[r].response.status = 200

\* C10: every step in which a put of the persistence step fails emits a log
\* record.
C10_PersistFailureLogged ==
    [][\A r \in Reqs :
          \/ (req[r].putImages # "failed" /\ req'[r].putImages = "failed")
          \/ (req[r].putLast # "failed" /\ req'[r].putLast = "failed")
          => log' # log]_vars

(***************************************************************************)
(* Failures of the remote source during a refresh (SpecFetch).             *)
(***************************************************************************)
\* C11: when a page request of a refresh finds the source unreachable or
\* gets a non-success status, the refresh fails there: its promise is
\* rejected with the error of that page request and the caller answers that
\* error, with its message, as an error response (status 500, or 404 when the
\* message holds 'not found'), so the request does not end in a result
\* computed from the pages fetched.
C11_PageFailureFailsRequest ==
    \A r \in Reqs :
        req[r].nonSuccess =>
            /\ req[r].pc = "done"
            /\ req[r].promise.state = "rejected"
            /\ req[r].promise.reason.error \in {"fetch failed", "SyntaxError", "TypeError"}
            /\ req[r].response.status \in {404, 500}
            /\ req[r].response.body = Message(req[r].promise.reason.error,
                                              req[r].promise.reason.detail)

(***************************************************************************)
(* Properties of the image relay (SpecRelay).                              *)
(***************************************************************************)
\* request r is a relay request that has been answered
RelayAnswered(r) == req[r].kind = "relay" /\ req[r].pc = "done"

\* getImage of relay request r obtained a catalog
CatalogAtHand(r) ==
    /\ req[r].kind = "relay"
    /\ req[r].catalog # Undefined
    /\ req[r].catalog # Null

\* the catalog holds an entry for the image asked for
EntryAtHand(r) ==
    /\ CatalogAtHand(r)
    /\ AnyMatch(req[r].needle, req[r].catalog.items)

\* the first entry of the catalog that matches the image asked for
Entry(r) ==
    LET items == req[r].catalog.items
    IN  items[Min({ i \in 1..Len(items) :
                      ImageMatches(items[i], stripExt(req[r].needle)) })]

RequestedName(r) == IF req[r].variant = Undefined THEN S_public ELSE req[r].variant.text

VariantsAtHand(r) == Entry(r).variants

VariantAtHand(r) ==
    /\ EntryAtHand(r)
    /\ \E i \in 1..Len(VariantsAtHand(r)) : EndsWith(VariantsAtHand(r)[i], RequestedName(r))

NoMatchingEntry(r) == CatalogAtHand(r) /\ ~EntryAtHand(r)

NoMatchingVariant(r) == EntryAtHand(r) /\ ~VariantAtHand(r)

\* the answer is the upstream response under new headers
IsRelayed(response) == "headers" \in DOMAIN response

\* a missing KV binding or a failed refresh (no catalog was obtained), an
\* unusable cached value, an unreachable variant URL or a header that
\* cannot be appended
OtherFailure(r) ==
    \/ req[r].catalog = Undefined
    \/ req[r].catalog = Null
    \/ VariantAtHand(r) /\ ~IsRelayed(req[r].response)

\* C12: an error that reaches the boundary is answered 404 exactly when no
\* entry or no variant matched; every other error (a failed upstream fetch, a
\* missing KV binding, a failed cache read) is answered 500; the body is the
\* error's message.
C12_NotFoundIs404OthersAre500 ==
    \A r \in Reqs :
        RelayAnswered(r) =>
            /\ NoMatchingEntry(r) =>
                  req[r].response = Text(404, "Image not found", req[r].needle)
            /\ NoMatchingVariant(r) =>
                  req[r].response = Text(404, "Variant not found", RequestedName(r))
            /\ OtherFailure(r) =>
                  /\ req[r].response.status = 500
                  /\ req[r].response.body.text \in
                        {"KV namespace not found", "fetch failed", "SyntaxError",
                         "TypeError", "Headers.append", "ByteString"}

\* what relay request r has come to: where it stands, the entry and the URL
\* it fetches, and its answer
Outcome(r) == GoOn(req[r].pc, req[r].response, req[r].image, req[r].variantUrl)

\* what a relay request that asks for `variant` comes to from the same
\* catalog and the same upstream answer
OutcomeWith(r, variant) ==
    LET stage == RelayStage(req[r].needle, variant, req[r].catalog)
    IN  IF stage.pc = "done" \/ req[r].variantResponse = Null
        THEN stage
        ELSE GoOn("done",
                  IF ~req[r].variantResponse.reachable
                  THEN onError(Thrown("fetch failed", <<>>))
                  ELSE Relayed(req[r].variantResponse, stage.image, stage.variantUrl),
                  stage.image, stage.variantUrl)

\* C13: a relay request with no variant has exactly the outcome of the same
\* request with the variant "public": the same URL fetched and the same
\* answer, or the same not-found failure.
C13_AbsentVariantIsPublic ==
    \A r \in Reqs :
        /\ req[r].kind = "relay"
        /\ req[r].variant = Undefined
        /\ req[r].catalog # Undefined
        => Outcome(r) = OutcomeWith(r, Str(S_public))

\* the header `name` of the answer to request r carries `value`
HasHeader(r, name, value) ==
    /\ IsRelayed(req[r].response)
    /\ \E i \in 1..Len(req[r].response.headers) :
          req[r].response.headers[i] = [name |-> name, value |-> value]

\* C13 witness: a request with no variant for an entry whose variants are
\* "thumb" and "public", in this order, relayed from the public URL.
C13_Witness ==
    \E r \in Reqs :
        /\ RelayAnswered(r)
        /\ req[r].variant = Undefined
        /\ EntryAtHand(r)
        /\ VariantsAtHand(r) = <<VariantUrl(S_c4, S_thumb), VariantUrl(S_c4, S_public)>>
        /\ req[r].variantUrl = VariantUrl(S_c4, S_public)
        /\ HasHeader(r, "X-Original-Url", VariantUrl(S_c4, S_public))

\* the position of the first variant URL whose full string ends with the
\* requested name
FirstVariantAtHand(r) ==
    CHOOSE i \in 1..Len(VariantsAtHand(r)) :
        /\ EndsWith(VariantsAtHand(r)[i], RequestedName(r))
        /\ \A j \in 1..(i - 1) : ~EndsWith(VariantsAtHand(r)[j], RequestedName(r))

\* C14: for a resolved entry the relay fetches the first URL, in the order of
\* the entry's variant sequence, whose full string ends with the requested
\* name; when no URL does, the request fails with a 'Variant not found'
\* error, answered with status 404.
C14_FirstUrlEndingWithName ==
    \A r \in Reqs :
        EntryAtHand(r) =>
            IF VariantAtHand(r)
            THEN /\ req[r].variantUrl = VariantsAtHand(r)[FirstVariantAtHand(r)]
                 /\ IsRelayed(req[r].response) =>
                        HasHeader(r, "X-Original-Url",
                                  VariantsAtHand(r)[FirstVariantAtHand(r)])
            ELSE /\ req[r].pc = "done"
                 /\ req[r].response.status = 404
                 /\ req[r].response.body = Message("Variant not found", RequestedName(r))
                 /\ StartsWith(MessageText(Thrown(req[r].response.body.text,
                                                  req[r].response.body.detail)),
                               SubSeq(M_variantNotFound, 1, 17))

\* C14 witness: the name "public" requested from an entry whose variant URLs
\* end with "xpublic" and "public", in this order: the first one is relayed.
C14_Witness ==
    \E r \in Reqs :
        /\ RelayAnswered(r)
        /\ EntryAtHand(r)
        /\ req[r].variant = Str(S_public)
        /\ VariantsAtHand(r) = <<VariantUrl(S_c4, S_xpublic), VariantUrl(S_c4, S_public)>>
        /\ HasHeader(r, "X-Original-Url", VariantUrl(S_c4, S_xpublic))

\* fetch(variantUrl) of relay request r brought back a response
VariantFetched(r) ==
    /\ RelayAnswered(r)
    /\ req[r].variantResponse # Null
    /\ req[r].variantResponse.reachable

\* a text that Headers.append takes as a header value
HeaderValue(text) ==
    /\ \A i \in 1..Len(text) : text[i] <= 255
    /\ LET normal == HeaderNormalize(text)
       IN  \A i \in 1..Len(normal) : normal[i] \notin HeaderForbidden

\* the relay answered with the upstream response: the variant was fetched
\* and the file name, the URL and the id are header values
RelaySucceeded(r) ==
    /\ VariantFetched(r)
    /\ HeaderValue(S_inline \o req[r].image.filename \o <<QuoteMark>>)
    /\ HeaderValue(req[r].variantUrl)
    /\ HeaderValue(req[r].image.id)

\* C18 as claimed: a successful relay has the upstream status and body, and
\* the upstream headers with exactly one header added, Content-Disposition
\* with the value inline; filename="<filename>".
C18_OneHeaderAdded ==
    \A r \in Reqs :
        RelaySucceeded(r) =>
            /\ req[r].response.status = req[r].variantResponse.status
            /\ req[r].response.body = req[r].variantResponse.body
            /\ req[r].response.headers =
                  Append(req[r].variantResponse.headers,
                         [name |-> "Content-Disposition",
                          value |-> S_inline \o req[r].image.filename \o <<QuoteMark>>])

\* C18 as amended: a successful relay has the upstream status and body, and
\* the upstream headers followed by three appended headers:
\* Content-Disposition with the value inline; filename="<filename>" of the
\* resolved entry, X-Original-Url with the variant URL that was fetched, and
\* X-Image-Id with the resolved entry's id, the last two without white space
\* at their ends.  Upstream headers are
\* kept, also one named Content-Disposition.  When the file name, the URL or
\* the id is not a header value, the relay is not successful: the answer is
\* an error.
C18_ThreeHeadersAppended ==
    \A r \in Reqs :
        VariantFetched(r) =>
            IF RelaySucceeded(r)
            THEN /\ req[r].response.status = req[r].variantResponse.status
                 /\ req[r].response.body = req[r].variantResponse.body
                 /\ req[r].response.headers =
                       req[r].variantResponse.headers \o
                          << [name |-> "Content-Disposition",
                              value |-> S_inline \o req[r].image.filename
                                            \o <<QuoteMark>>],
                             [name |-> "X-Original-Url",
                              value |-> HeaderNormalize(req[r].variantUrl)],
                             [name |-> "X-Image-Id",
                              value |-> HeaderNormalize(req[r].image.id)] >>
            ELSE /\ ~IsRelayed(req[r].response)
                 /\ req[r].response.status \in {404, 500}

\* C18 witness: an upstream answer of status 404 that has a
\* Content-Disposition header of its own, relayed with five headers, for an
\* entry whose id ends with a space.
C18_Witness ==
    \E r \in Reqs :
        /\ RelaySucceeded(r)
        /\ req[r].variantResponse.status = 404
        /\ Len(req[r].variantResponse.headers) = 2
        /\ req[r].variantResponse.headers[1].name = "Content-Disposition"
        /\ req[r].response.status = 404
        /\ Len(req[r].response.headers) = 5
        /\ req[r].image.id = S_c4 \o <<32>>
        /\ HasHeader(r, "X-Image-Id", S_c4)

(***************************************************************************)
(* Properties of the cache under concurrent requests (Spec), continued.    *)
(***************************************************************************)
\* request e is a GET /.expire-cache that has responded, and no request has
\* arrived since
LatestIsExpireCache(e) ==
    /\ req[e].kind = "expireCache"
    /\ req[e].pc = "done"
    /\ \A q \in Reqs : q > e => req[q].pc = "idle"

\* C15: once GET /.expire-cache has responded, the cache is expired for the
\* next request to arrive, so a resolve call that comes next refreshes
\* instead of reading KV_IMAGES; this holds also when the refresh of an
\* earlier request was in flight when the cache was expired.
C15_ExpiredAfterExpireCache ==
    \A e \in Reqs :
        LatestIsExpireCache(e) => isExpired(kv.KV_LAST_CACHED, now)

\* the cache is not expired: KV_LAST_CACHED is present and no more than 24
\* hours old
Fresh ==
    /\ kv.KV_LAST_CACHED # Null
    /\ now - DateParse(kv.KV_LAST_CACHED) <= Hours24

\* C16: a GET /.update-cache whose isExpired runs while the cache is not expired
\* answers 'Cache not expired' at once, has issued no page request and no
\* put, and leaves KV_IMAGES and KV_LAST_CACHED as they were; it starts a
\* fetch when the cache is expired, and 'Cache updated' is answered only by a
\* request that found the cache expired and fetched.
C16_UpdateCacheOnlyWhenExpired ==
    /\ [][\A r \in Reqs :
             req[r].pc = "idle" /\ req'[r].kind = "updateCache" =>
                IF Fresh
                THEN /\ req'[r].pc = "done"
                     /\ req'[r].response = Text(200, "Cache not expired", <<>>)
                     /\ req'[r].requested = <<>>
                     /\ req'[r].putImages = "none"
                     /\ req'[r].putLast = "none"
                     /\ kv' = kv
                ELSE /\ req'[r].pc = "getAccountId"
                     /\ req'[r].expired
                     /\ kv' = kv]_vars
    /\ [](\A r \in Reqs :
             /\ req[r].kind = "updateCache"
             /\ req[r].response # Null
             /\ req[r].response.body.text = "Cache updated"
             => req[r].expired /\ req[r].requested # <<>>)

\* C16 witness: a GET /.update-cache answered 'Cache not expired' on a cache
\* that an earlier request had filled.
C16_Witness ==
    \E r \in Reqs :
        /\ req[r].kind = "updateCache"
        /\ req[r].response = Text(200, "Cache not expired", <<>>)
        /\ req[r].requested = <<>>
        /\ kv.KV_IMAGES # Null
        /\ Fresh

(***************************************************************************)
(* Refreshes without stored credentials (SpecFetch).                       *)
(***************************************************************************)
\* the refresh of request r has read its credentials and one was absent
CredentialsMissing(r) ==
    /\ req[r].expired
    /\ req[r].pc \in {"fetchPage", "done"}
    /\ req[r].accountId = Null \/ req[r].apiKey = Null

\* the errors that report a missing binding or a missing credential
ConfigurationErrors == {"KV namespace not found", "Missing Cloudflare credentials"}

\* C17: when ACCOUNT_ID or API_KEY is absent and a refresh is needed, the
\* refresh fails with a configuration error, and no catalog is produced or
\* persisted from a fetch made with missing credentials.
C17_MissingCredentialsIsConfigurationError ==
    \A r \in Reqs :
        CredentialsMissing(r) =>
            /\ req[r].promise.state # "fulfilled"
            /\ kv.KV_IMAGES = Null
            /\ req[r].pc = "done" =>
                  /\ req[r].promise.state = "rejected"
                  /\ req[r].promise.reason.error \in ConfigurationErrors

(***************************************************************************)
(* Resolve calls on a cache that is not expired (Spec).                    *)
(***************************************************************************)
\* C19: in every state where KV_LAST_CACHED is present and not expired but
\* KV_IMAGES is absent, a resolve call that reads the cache goes on to
\* refresh, and does not end there.
C19_AbsentImagesRefreshes ==
    [][\A r \in Reqs :
          /\ req[r].pc = "readCache"
          /\ req'[r] # req[r]
          /\ Fresh
          /\ kv.KV_IMAGES = Null
          => req'[r].pc = "getAccountId"]_vars

\* what a lookup answers from the catalog `images`
AnswersFrom(response, needle, images) ==
    IF AnyMatch(needle, images)
    THEN /\ response.status = 200
         /\ \E i \in 1..Len(images) : response.body = [json |-> images[i]]
    ELSE response = Text(404, "Image not found", needle)

\* what a relay does with the catalog `images`: it answers that no image
\* or no variant was found, or it fetches a variant URL of an entry of the
\* catalog
RelaysFrom(request, images) ==
    IF request.pc = "done"
    THEN /\ request.response.status = 404
         /\ request.response.body.text \in {"Image not found", "Variant not found"}
         /\ request.response.body.text = "Image not found" <=>
                ~AnyMatch(request.needle, images)
    ELSE /\ request.pc = "fetchVariant"
         /\ \E i \in 1..Len(images) :
               /\ request.image = images[i]
               /\ \E j \in 1..Len(images[i].variants) :
                     request.variantUrl = images[i].variants[j]

\* C20: a resolve call (of a lookup or of a relay) that finds the cache not
\* expired goes on to read KV_IMAGES, takes its catalog from there, issues
\* no page request and no put, and leaves the Cache Store as it was, up to
\* its answer.
C20_FreshCacheServedFromStore ==
    [][\A r \in Reqs :
          /\ req[r].pc = "idle" /\ req'[r].kind \in {"lookup", "relay"} /\ Fresh =>
                /\ req'[r].pc = "readCache"
                /\ req'[r].requested = <<>>
                /\ kv' = kv
          /\ req[r].pc = "readCache" /\ req'[r] # req[r] =>
                /\ req'[r].requested = <<>>
                /\ req'[r].putImages = "none"
                /\ req'[r].putLast = "none"
                /\ kv' = kv
                /\ kv.KV_IMAGES # Null =>
                      IF req[r].kind = "lookup"
                      THEN /\ req'[r].pc = "done"
                           /\ AnswersFrom(req'[r].response, req[r].needle,
                                          kv.KV_IMAGES.array)
                      ELSE RelaysFrom(req'[r], kv.KV_IMAGES.array)
          /\ req[r].pc = "fetchVariant" /\ ~req[r].expired /\ req'[r] # req[r] =>
                /\ req'[r].pc = "done"
                /\ req'[r].requested = <<>>
                /\ req'[r].putImages = "none"
                /\ req'[r].putLast = "none"
                /\ kv' = kv]_vars

\* C20 witness: a lookup answered 200 from the stored catalog, with no page
\* request, on a cache another request had filled.
C20_Witness ==
    \E r \in Reqs :
        /\ req[r].kind = "lookup"
        /\ req[r].pc = "done"
        /\ ~req[r].expired
        /\ req[r].requested = <<>>
        /\ kv.KV_IMAGES # Null
        /\ req[r].response.status = 200
        /\ \E i \in 1..Len(kv.KV_IMAGES.array) :
              req[r].response.body = [json |-> kv.KV_IMAGES.array[i]]

\* C21: a refresh whose page request p >= 1 failed writes neither KV_IMAGES
\* nor KV_LAST_CACHED and issues no put, in the failing step and ever after;
\* the failed request is the last page request it makes: pages 1..p were
\* asked for once each, and none is asked for again.
C21_FailedRefreshWritesNothingNoRetry ==
    /\ [](\A r \in Reqs :
             req[r].pageError # Null =>
                /\ req[r].page >= 1
                /\ req[r].requested = [i \in 1..req[r].page |-> i]
                /\ req[r].putImages = "none"
                /\ req[r].putLast = "none"
                /\ kv.KV_IMAGES = Null
                /\ kv.KV_LAST_CACHED = Null)
    /\ [][\A r \in Reqs :
             req'[r].pageError # Null =>
                /\ kv'.KV_IMAGES = kv.KV_IMAGES
                /\ kv'.KV_LAST_CACHED = kv.KV_LAST_CACHED
                /\ req[r].pageError # Null => req'[r].requested = req[r].requested]_vars

\* C21 witness: a GET /.update-cache whose refresh failed at its second page
\* request, after a full first page, with the store still empty.
C21_Witness ==
    \E r \in Reqs :
        /\ req[r].kind = "updateCache"
        /\ req[r].pageError # Null
        /\ req[r].requested = <<1, 2>>
        /\ Len(req[r].images) = BATCH_SIZE
        /\ req[r].putImages = "none"
        /\ kv.KV_IMAGES = Null
        /\ kv.KV_LAST_CACHED = Null

\* no put of any refresh is in flight
NoPutInFlight ==
    \A r \in Reqs : req[r].putImages # "pending" /\ req[r].putLast # "pending"

BothKeysPresent == kv.KV_IMAGES # Null /\ kv.KV_LAST_CACHED # Null

\* request r's refresh wrote both values the store holds
WroteBoth(r) ==
    /\ req[r].putImages = "ok"
    /\ req[r].putLast = "ok"
    /\ kv.KV_IMAGES = [tag |-> "json", array |-> req[r].images]
    /\ kv.KV_LAST_CACHED = req[r].fetchDate

\* C22 as claimed: in every state in which no persistence step is in flight
\* and both keys are present, KV_IMAGES and KV_LAST_CACHED were written by
\* the same refresh run.
C22_SameRunWroteBoth ==
    NoPutInFlight /\ BothKeysPresent => \E r \in Reqs : WroteBoth(r)

\* C22 as amended: in every state in which no persistence step is in flight
\* and both keys are present, KV_IMAGES is the whole catalog of a run whose
\* put of KV_IMAGES landed and KV_LAST_CACHED is the fetch date of a run
\* whose put of KV_LAST_CACHED landed; the two puts are independent, and the
\* two runs need not be the same one.
C22_EachKeyFromALandedPut ==
    NoPutInFlight /\ BothKeysPresent =>
        /\ \E r \in Reqs :
              /\ req[r].putImages = "ok"
              /\ kv.KV_IMAGES = [tag |-> "json", array |-> req[r].images]
        /\ \E r \in Reqs :
              /\ req[r].putLast = "ok"
              /\ kv.KV_LAST_CACHED = req[r].fetchDate

\* C22 witness: no put is in flight, the stored catalog is that of an older
\* run, and the stored timestamp is that of a later run whose put of
\* KV_IMAGES failed.
C22_Witness ==
    /\ NoPutInFlight
    /\ BothKeysPresent
    /\ \E r1, r2 \in Reqs :
          /\ req[r1].putImages = "ok" /\ req[r1].putLast = "ok"
          /\ req[r2].putImages = "failed" /\ req[r2].putLast = "ok"
          /\ DateParse(req[r1].fetchDate) < DateParse(req[r2].fetchDate)
          /\ req[r1].images # req[r2].images
          /\ kv.KV_IMAGES = [tag |-> "json", array |-> req[r1].images]
          /\ kv.KV_LAST_CACHED = req[r2].fetchDate

(***************************************************************************)
(* Properties of needle preprocessing (SpecStrip).                         *)
(***************************************************************************)
Stripped == call.fn = "stripExt" /\ ret # NoRet

\* a-z or A-Z
IsLetter(c) == (65 <= c /\ c <= 90) \/ (97 <= c /\ c <= 122)

\* the positions of the dots of s
DotsOf(s) == { i \in 1..Len(s) : s[i] = 46 }

\* the position of the last dot of s; 0 when s has none
LastDot(s) ==
    IF DotsOf(s) = {} THEN 0 ELSE CHOOSE i \in DotsOf(s) : \A j \in DotsOf(s) : j <= i

\* s ends with a dot followed by one or more letters
HasLetterSuffix(s) ==
    /\ LastDot(s) > 0
    /\ LastDot(s) < Len(s)
    /\ \A j \in (LastDot(s) + 1)..Len(s) : IsLetter(s[j])

\* C23: stripExt removes a trailing suffix exactly when the suffix is a dot
\* followed by one or more letters a-z, A-Z at the end of the string, and
\* then removes that one suffix only; a needle whose text after its last dot
\* holds a character that is not a letter (an underscore, a digit) comes
\* back unchanged.
C23_StripsDotLettersOnly ==
    Stripped =>
        ret.value = IF HasLetterSuffix(call.filename)
                    THEN SubSeq(call.filename, 1, LastDot(call.filename) - 1)
                    ELSE call.filename

====
